---- MODULE Spec2Model ----
(***************************************************************************)
(* Tiny FOB v2 (src/index.js, the CommonJS program of lines 106-338):      *)
(* a redirector with a kill switch, a per-client rate limiter, a           *)
(* destination validator, best-effort click logging into Postgres, a       *)
(* Prometheus counter and a shared-secret admin surface.                   *)
(*                                                                         *)
(* Lines 1-104 of the file hold an earlier ES-module version of the same   *)
(* server, with no kill switch, validator or exports; it is not modelled.  *)
(*                                                                         *)
(* Strings whose characters the code looks at (destinations, host names,   *)
(* the allowlist setting) are sequences of one-character strings.          *)
(*                                                                         *)
(* A handler runs without interruption up to an await of pool.query; the   *)
(* query's return (or throw) and the rest of the handler are one step.     *)
(*                                                                         *)
(* proc follows shutdown (lines 191-200): "up", "ending" while pool.end()  *)
(* is pending, "exited" after process.exit. redirected and dropped are     *)
(* history variables: they record, they steer nothing.                     *)
(***************************************************************************)
EXTENDS Integers, Sequences, FiniteSets, TLC

\* ------------------------------------------------------------------ text

UpperToLower ==
  [c \in {"A","B","C","D","E","F","G","H","I","J","K","L","M","N","O","P","Q",
          "R","S","T","U","V","W","X","Y","Z"} |->
     CASE c = "A" -> "a" [] c = "B" -> "b" [] c = "C" -> "c" [] c = "D" -> "d"
       [] c = "E" -> "e" [] c = "F" -> "f" [] c = "G" -> "g" [] c = "H" -> "h"
       [] c = "I" -> "i" [] c = "J" -> "j" [] c = "K" -> "k" [] c = "L" -> "l"
       [] c = "M" -> "m" [] c = "N" -> "n" [] c = "O" -> "o" [] c = "P" -> "p"
       [] c = "Q" -> "q" [] c = "R" -> "r" [] c = "S" -> "s" [] c = "T" -> "t"
       [] c = "U" -> "u" [] c = "V" -> "v" [] c = "W" -> "w" [] c = "X" -> "x"
       [] c = "Y" -> "y" [] c = "Z" -> "z"]

LowerChar(c) == IF c \in DOMAIN UpperToLower THEN UpperToLower[c] ELSE c

\* String.prototype.toLowerCase
toLowerCase(s) == [i \in 1..Len(s) |-> LowerChar(s[i])]

Letters ==
  {"a","b","c","d","e","f","g","h","i","j","k","l","m","n","o","p","q","r","s",
   "t","u","v","w","x","y","z"}

Digits == {"0","1","2","3","4","5","6","7","8","9"}

\* The first position of s, from position i on, that holds a character of cs;
\* Len(s) + 1 when there is none.
RECURSIVE FindFrom(_, _, _)
FindFrom(s, i, cs) ==
  IF i > Len(s) THEN Len(s) + 1
  ELSE IF s[i] \in cs THEN i
  ELSE FindFrom(s, i + 1, cs)

\* The last position of s that holds c; 0 when there is none.
RECURSIVE LastIndexOf(_, _, _)
LastIndexOf(s, i, c) ==
  IF i = 0 THEN 0
  ELSE IF s[i] = c THEN i
  ELSE LastIndexOf(s, i - 1, c)

\* String.prototype.trim (the white space of the model's alphabet is " ")
RECURSIVE trimStart(_)
trimStart(s) ==
  IF s # <<>> /\ Head(s) = " " THEN trimStart(Tail(s)) ELSE s

RECURSIVE trimEnd(_)
trimEnd(s) ==
  IF s # <<>> /\ s[Len(s)] = " " THEN trimEnd(SubSeq(s, 1, Len(s) - 1)) ELSE s

trim(s) == trimEnd(trimStart(s))

\* String.prototype.split(","): the pieces between the commas, empty ones kept
RECURSIVE split(_)
split(s) ==
  LET k == FindFrom(s, 1, {","})
  IN  IF k > Len(s) THEN <<s>>
      ELSE <<SubSeq(s, 1, k - 1)>> \o split(SubSeq(s, k + 1, Len(s)))

Range(f) == {f[i] : i \in DOMAIN f}

\* ------------------------------------------------------- WHATWG URL parser

SchemeChars == Letters \cup Digits \cup {"+", "-", "."}

\* Code points a host may not hold, among the model's alphabet.
ForbiddenHostChars == {" ", "#", "/", ":", "?", "@", "\\"}

SpecialSchemes == {<<"h","t","t","p">>, <<"h","t","t","p","s">>, <<"f","t","p">>}

ParseFailure == [ok |-> FALSE, protocol |-> <<>>, hostname |-> <<>>]

\* The position after the slashes that follow a special scheme's colon.
RECURSIVE SkipSlashes(_, _)
SkipSlashes(s, i) ==
  IF i <= Len(s) /\ s[i] \in {"/", "\\"} THEN SkipSlashes(s, i + 1) ELSE i

\* new URL(raw) without a base: fails (TypeError) unless raw is an absolute
\* URL; yields the scheme in lower case followed by ":", and the host without
\* credentials and port, in lower case.
ParseURL(raw) ==
  LET s      == trim(raw)
      colon  == FindFrom(s, 1, {":"})
      scheme == toLowerCase(SubSeq(s, 1, colon - 1))
  IN  IF \/ s = <<>>
         \/ LowerChar(s[1]) \notin Letters
         \/ colon > Len(s)
         \/ \E i \in 1..Len(scheme) : scheme[i] \notin SchemeChars
      THEN ParseFailure
      ELSE IF scheme \notin SpecialSchemes
      THEN [ok |-> TRUE, protocol |-> scheme \o <<":">>, hostname |-> <<>>]
      ELSE
        LET start     == SkipSlashes(s, colon + 1)
            stop      == FindFrom(s, start, {"/", "\\", "?", "#"})
            authority == SubSeq(s, start, stop - 1)
            at        == LastIndexOf(authority, Len(authority), "@")
            hostport  == SubSeq(authority, at + 1, Len(authority))
            pc        == FindFrom(hostport, 1, {":"})
            host      == SubSeq(hostport, 1, pc - 1)
            port      == SubSeq(hostport, pc + 1, Len(hostport))
        IN  IF \/ host = <<>>
               \/ \E i \in 1..Len(host) : host[i] \in ForbiddenHostChars
               \/ \E i \in 1..Len(port) : port[i] \notin Digits
            THEN ParseFailure
            ELSE [ok |-> TRUE, protocol |-> scheme \o <<":">>,
                  hostname |-> toLowerCase(host)]

\* ---------------------------------------------------------------- config

HttpsScheme == <<"h","t","t","p","s">>
ExampleCom == <<"e","x","a","m","p","l","e",".","c","o","m">>
EvilCom == <<"e","v","i","l",".","c","o","m">>

\* "https://example.com", the literal of lines 257 and 258
DEFAULT_DEST == HttpsScheme \o <<":","/","/">> \o ExampleCom

\* process.env.FOB_ADMIN_PASS || "testpass"
ADMIN == "testpass"

\* The values of the x-admin-pass header; NoHeader when it is absent.
NoHeader == "undefined"
AdminPasses == {ADMIN, "wrong", NoHeader}

\* Settings of process.env.DEST_HOST_ALLOWLIST: unset, one host, and a list
\* with upper case, blanks and an empty piece.
AllowlistSettings ==
  { <<>>,
    ExampleCom,
    <<" ","E","x","a","m","p","l","e",".","C","O","M"," ",","," ",",">> \o EvilCom }

\* .split(",").map((s) => s.trim().toLowerCase()).filter(Boolean)
ParseAllowlist(setting) ==
  LET pieces == split(setting)
  IN  {toLowerCase(trim(pieces[i])) : i \in 1..Len(pieces)} \ {<<>>}

\* windowMs: 60_000, max: 120
RATE_MAX == 120

\* ----------------------------------------------------------------- state

VARIABLES
  pool,                 \* TRUE when DATABASE_URL is set (pool is not null)
  DEST_HOST_ALLOWLIST,  \* the set of allowed host names
  killed,               \* app.locals.killed
  hits,                 \* goLimiter's store: key -> hits in the key's window
  admitted,             \* history: key -> requests the limiter let through in the window
  clicksTotal,          \* the Prometheus counter: slug -> value
  clicks,               \* the rows of table clicks, in insertion order
  clock,                \* the store's now(), in days
  inflight,             \* the handlers suspended on a pool.query, in arrival order
  proc,                 \* the process: "up", "ending" (pool.end() pending), "exited"
  redirected,           \* history: slug -> redirect requests answered 302
  dropped,              \* history: slug -> INSERTs that failed or were skipped
  last                  \* the last thing a handler did: the request and its response

vars ==
  <<pool, DEST_HOST_ALLOWLIST, killed, hits, admitted, clicksTotal, clicks,
    clock, inflight, proc, redirected, dropped, last>>

\* ------------------------------------------------------------ input sets

MaxClicks == 2      \* redirect requests let into the handler, in all
MaxInFlight == 2    \* handlers suspended on a query at one time
MaxOver == 2        \* requests of one key past the limit in one window
MaxDay == 1         \* the store's clock runs over the days 0..MaxDay

Slugs == {"abc", "xyz"}

\* The x-forwarded-for header, as the list of its addresses (<<>>: absent).
XffChains == {<<>>, <<"10.0.0.1", "10.0.0.2">>}

\* The transport peer address.
Peers == {"192.0.2.1"}

Addresses == Peers \cup UNION {Range(x) : x \in XffChains}

\* The user-agent header (NoHeader: absent).
UserAgents == {NoHeader}

\* ?dest= of a request (<<>>: absent or empty).
ExampleOk == DEFAULT_DEST \o <<"/","o","k">>
EvilX == HttpsScheme \o <<":","/","/">> \o EvilCom \o <<"/","x">>
NotAUrl == <<"n","o","t"," ","a"," ","u","r","l">>

\* The candidate destinations of the validator's specification: a scheme, a
\* separator, an authority and a tail, each possibly missing.
RawSchemes ==
  { <<>>, HttpsScheme, <<"h","t","t","p">>, <<"H","T","T","P","S">>,
    <<"f","t","p">>, <<"j","a","v","a","s","c","r","i","p","t">> }
RawSeparators == { <<>>, <<":">>, <<":","/","/">> }
RawAuthorities ==
  { <<>>, ExampleCom, <<"E","x","a","m","p","l","e",".","C","O","M">>, EvilCom,
    ExampleCom \o <<"@">> \o EvilCom, ExampleCom \o <<":","8","0">>,
    ExampleCom \o <<".">> \o EvilCom, NotAUrl }
RawTails == { <<>>, <<"/","o","k">>, <<"/","x">>, <<"?","a","=","b"," ">> }
Candidates ==
  { a \o b \o c \o d :
      a \in RawSchemes, b \in RawSeparators, c \in RawAuthorities, d \in RawTails }

\* ------------------------------------------------------- request pipeline

\* new URL(raw): the candidates are parsed once, any other string when met.
ParsedCandidates == [raw \in Candidates |-> ParseURL(raw)]

URL(raw) ==
  IF raw \in DOMAIN ParsedCandidates THEN ParsedCandidates[raw] ELSE ParseURL(raw)

startsWith(s, prefix) ==
  Len(s) >= Len(prefix) /\ SubSeq(s, 1, Len(prefix)) = prefix

AdminPrefix == <<"/","a","d","m","i","n">>
PathStatus == <<"/","s","t","a","t","u","s">>
PathRoot == <<"/">>
PathMetrics == <<"/","m","e","t","r","i","c","s">>
PathGo == <<"/","g","o","/","s">>
PathKill == AdminPrefix \o <<"/","k","i","l","l">>
PathUnkill == AdminPrefix \o <<"/","u","n","k","i","l","l">>
PathLast == AdminPrefix \o <<"/","l","a","s","t">>
PathExport == AdminPrefix \o <<"/","e","x","p","o","r","t">>
PathExportDay == PathExport \o <<"/","d","a","y">>
PathOther == <<"/","x">>

\* Variants of the maintenance middleware: the negation lost, and the
\* exemption of /admin lost.
KillGate_AdminOnly(path) == killed /\ startsWith(path, AdminPrefix)

KillGate_NoExemption(path) == killed

\* The maintenance middleware answers 503 instead of calling next().
KillGate(path) == killed /\ ~startsWith(path, AdminPrefix)

\* Variant: any x-admin-pass header passes.
adminOK_AnyHeader(pass) == pass # NoHeader

adminOK(pass) == pass = ADMIN

\* req.ip under app.set("trust proxy", 1): the peer is trusted, so the address
\* is the right-most entry of x-forwarded-for, or the peer without the header.
ReqIp(xff, peer) == IF xff = <<>> THEN peer ELSE xff[Len(xff)]

\* express-rate-limit's default keyGenerator
LimiterKey(xff, peer) == ReqIp(xff, peer)

\* Variant: the limit is reached one request early.
LimiterRejects_OffByOne(totalHits) == totalHits >= RATE_MAX

\* The limiter's verdict on a request that brings the key's hits to totalHits.
LimiterRejects(totalHits) == totalHits > RATE_MAX

\* (req.headers["x-forwarded-for"] || req.ip || "").split(",")[0].trim()
ClientIp(xff, peer) == IF xff = <<>> THEN ReqIp(xff, peer) ELSE xff[1]

\* Variant: the scheme is not looked at.
isAllowedDest_AnyScheme(raw) ==
  LET u == URL(raw)
  IN  IF ~u.ok THEN FALSE
      ELSE IF Cardinality(DEST_HOST_ALLOWLIST) = 0 THEN TRUE
      ELSE toLowerCase(u.hostname) \in DEST_HOST_ALLOWLIST

isAllowedDest(raw) ==
  LET u == URL(raw)
  IN  IF ~u.ok THEN FALSE
      ELSE IF u.protocol # <<"h","t","t","p","s",":">>
              /\ u.protocol # <<"h","t","t","p",":">> THEN FALSE
      ELSE IF Cardinality(DEST_HOST_ALLOWLIST) = 0 THEN TRUE
      ELSE toLowerCase(u.hostname) \in DEST_HOST_ALLOWLIST

\* req.query.dest || "https://example.com"
RawDest(query) == IF query = <<>> THEN DEFAULT_DEST ELSE query

ResolveDest(query) ==
  IF isAllowedDest(RawDest(query)) THEN RawDest(query) ELSE DEFAULT_DEST

\* req.get("user-agent") || ""
UserAgent(header) == IF header = NoHeader THEN "" ELSE header

\* ------------------------------------------------------------- responses

NoRows == <<>>

\* What a step leaves to be seen: the route (op), whether a request came in
\* or a suspended handler resumed (step), the request (slug, rawDest, the
\* limiter key) and the response. status 0: nothing is sent, the handler is
\* suspended.
Outcome(op, status) ==
  [op |-> op, step |-> "request", status |-> status, slug |-> "",
   rawDest |-> <<>>, key |-> "", location |-> <<>>, ok |-> TRUE, count |-> 0,
   rows |-> NoRows]

Resumed(op, status) == [Outcome(op, status) EXCEPT !.step = "resume"]

\* A suspended handler: its route and the locals it resumes with.
Task(kind) ==
  [kind |-> kind, slug |-> "", rawDest |-> <<>>, dest |-> <<>>, ip |-> "",
   ua |-> "", day |-> 0]

GoTasks == {i \in 1..Len(inflight) : inflight[i].kind = "go"}

\* Redirect requests let into the handler so far.
Handled ==
  LET RECURSIVE Sum(_)
      Sum(S) == IF S = {} THEN 0
                ELSE LET x == CHOOSE y \in S : TRUE
                     IN  clicksTotal[x] + Sum(S \ {x})
  IN  Sum(Slugs) + Cardinality(GoTasks)

Remove(seq, i) == SubSeq(seq, 1, i - 1) \o SubSeq(seq, i + 1, Len(seq))

\* ------------------------------------------------------------- redirect

\* Variant: an increment that starts from 0 instead of the current value.
Inc_Lost(counter, slug) == [counter EXCEPT ![slug] = 1]

Inc(counter, slug) == [counter EXCEPT ![slug] = @ + 1]

\* No handler, timer or signal listener runs after process.exit(0).
Running == proc # "exited"

\* pool.query takes the query up: there is a pool and pool.end() has not been
\* called on it; after pool.end() pg rejects the query at once ("Cannot use a
\* pool after calling end on the pool").
PoolOpen == pool /\ proc = "up"

\* GET /go/:slug up to its first await: the maintenance middleware, goLimiter,
\* then the handler, which suspends on the INSERT when the pool takes it up
\* and runs to its end when there is no pool (the INSERT is skipped) or the
\* pool is ending (the INSERT is rejected at once and the error caught). cap
\* bounds the requests explored.
GoRequest(slug, query, xff, peer, uaHeader, cap) ==
  LET key   == LimiterKey(xff, peer)
      total == hits[key] + 1
      req   == [Outcome("go", 0) EXCEPT !.slug = slug, !.key = key,
                                       !.rawDest = RawDest(query)]
      task  == [Task("go") EXCEPT !.slug = slug, !.rawDest = RawDest(query),
                                  !.dest = ResolveDest(query),
                                  !.ip = ClientIp(xff, peer),
                                  !.ua = UserAgent(uaHeader)]
  IN  /\ Running
      /\ IF KillGate(PathGo)
         THEN /\ last' = [req EXCEPT !.status = 503]
              /\ UNCHANGED <<hits, admitted, clicksTotal, inflight, redirected,
                             dropped>>
         ELSE /\ hits[key] < RATE_MAX + MaxOver
              /\ hits' = [hits EXCEPT ![key] = total]
              /\ IF LimiterRejects(total)
                 THEN /\ last' = [req EXCEPT !.status = 429]
                      /\ UNCHANGED <<admitted, clicksTotal, inflight, redirected,
                                     dropped>>
                 ELSE /\ Handled < cap
                      /\ admitted' = [admitted EXCEPT ![key] = @ + 1]
                      /\ IF PoolOpen
                         THEN /\ Len(inflight) < MaxInFlight
                              /\ inflight' = Append(inflight, task)
                              /\ last' = req
                              /\ UNCHANGED <<clicksTotal, redirected, dropped>>
                         ELSE /\ clicksTotal' = Inc(clicksTotal, slug)
                              /\ redirected' = Inc(redirected, slug)
                              /\ dropped' = Inc(dropped, slug)
                              /\ last' = [req EXCEPT !.status = 302,
                                                     !.location = task.dest]
                              /\ UNCHANGED inflight
      /\ UNCHANGED <<pool, DEST_HOST_ALLOWLIST, killed, clicks, clock, proc>>

\* The row an INSERT of the task's values adds: id SERIAL, ts DEFAULT now().
NewRow(t) ==
  [id |-> Len(clicks) + 1, ts |-> clock, slug |-> t.slug, dest |-> t.dest,
   ip |-> t.ip, ua |-> t.ua]

\* Variant: the INSERT's error is not caught, the handler ends with a 500.
GoInsertDone_NoCatch(i, stored) ==
  /\ Running
  /\ i \in GoTasks
  /\ LET t == inflight[i]
     IN  IF stored
         THEN /\ clicks' = Append(clicks, NewRow(t))
              /\ clicksTotal' = Inc(clicksTotal, t.slug)
              /\ redirected' = Inc(redirected, t.slug)
              /\ last' = [Resumed("go", 302) EXCEPT !.slug = t.slug,
                                                   !.rawDest = t.rawDest,
                                                   !.location = t.dest]
              /\ UNCHANGED dropped
         ELSE /\ last' = [Resumed("go", 500) EXCEPT !.slug = t.slug,
                                                   !.rawDest = t.rawDest]
              /\ dropped' = Inc(dropped, t.slug)
              /\ UNCHANGED <<clicks, clicksTotal, redirected>>
  /\ inflight' = Remove(inflight, i)
  /\ UNCHANGED <<pool, DEST_HOST_ALLOWLIST, killed, hits, admitted, clock, proc>>

\* Variant: a handler that resumes while the switch is killed is aborted
\* with a 503, its row and its count dropped.
GoInsertDone_Aborted(i, stored) ==
  /\ Running
  /\ i \in GoTasks
  /\ LET t == inflight[i]
     IN  IF killed
         THEN /\ last' = [Resumed("go", 503) EXCEPT !.slug = t.slug,
                                                   !.rawDest = t.rawDest]
              /\ dropped' = Inc(dropped, t.slug)
              /\ UNCHANGED <<clicks, clicksTotal, redirected>>
         ELSE /\ clicks' = IF stored THEN Append(clicks, NewRow(t)) ELSE clicks
              /\ clicksTotal' = Inc(clicksTotal, t.slug)
              /\ redirected' = Inc(redirected, t.slug)
              /\ dropped' = IF stored THEN dropped ELSE Inc(dropped, t.slug)
              /\ last' = [Resumed("go", 302) EXCEPT !.slug = t.slug,
                                                   !.rawDest = t.rawDest,
                                                   !.location = t.dest]
  /\ inflight' = Remove(inflight, i)
  /\ UNCHANGED <<pool, DEST_HOST_ALLOWLIST, killed, hits, admitted, clock, proc>>

\* Variant: the click is counted only when its row is stored.
GoInsertDone_CountStored(i, stored) ==
  /\ Running
  /\ i \in GoTasks
  /\ LET t == inflight[i]
     IN  /\ clicks' = IF stored THEN Append(clicks, NewRow(t)) ELSE clicks
         /\ clicksTotal' = IF stored THEN Inc(clicksTotal, t.slug) ELSE clicksTotal
         /\ redirected' = Inc(redirected, t.slug)
         /\ dropped' = IF stored THEN dropped ELSE Inc(dropped, t.slug)
         /\ last' = [Resumed("go", 302) EXCEPT !.slug = t.slug,
                                              !.rawDest = t.rawDest,
                                              !.location = t.dest]
  /\ inflight' = Remove(inflight, i)
  /\ UNCHANGED <<pool, DEST_HOST_ALLOWLIST, killed, hits, admitted, clock, proc>>

\* Variant: a handler whose INSERT throws stays suspended and tries again.
GoInsertDone_Retry(i, stored) ==
  /\ Running
  /\ i \in GoTasks
  /\ LET t == inflight[i]
     IN  IF stored
         THEN /\ clicks' = Append(clicks, NewRow(t))
              /\ clicksTotal' = Inc(clicksTotal, t.slug)
              /\ redirected' = Inc(redirected, t.slug)
              /\ last' = [Resumed("go", 302) EXCEPT !.slug = t.slug,
                                                   !.rawDest = t.rawDest,
                                                   !.location = t.dest]
              /\ inflight' = Remove(inflight, i)
              /\ UNCHANGED dropped
         ELSE /\ last' = [Resumed("go", 0) EXCEPT !.slug = t.slug,
                                                 !.rawDest = t.rawDest]
              /\ dropped' = Inc(dropped, t.slug)
              /\ UNCHANGED <<clicks, clicksTotal, redirected, inflight>>
  /\ UNCHANGED <<pool, DEST_HOST_ALLOWLIST, killed, hits, admitted, clock, proc>>

\* The INSERT of a suspended redirect handler returns (stored = TRUE) or
\* throws (stored = FALSE, caught and logged); the handler then counts the
\* click and redirects.
GoInsertDone(i, stored) ==
  /\ Running
  /\ i \in GoTasks
  /\ LET t == inflight[i]
     IN  /\ clicks' = IF stored THEN Append(clicks, NewRow(t)) ELSE clicks
         /\ clicksTotal' = Inc(clicksTotal, t.slug)
         /\ redirected' = Inc(redirected, t.slug)
         /\ dropped' = IF stored THEN dropped ELSE Inc(dropped, t.slug)
         /\ last' = [Resumed("go", 302) EXCEPT !.slug = t.slug,
                                              !.rawDest = t.rawDest,
                                              !.location = t.dest]
  /\ inflight' = Remove(inflight, i)
  /\ UNCHANGED <<pool, DEST_HOST_ALLOWLIST, killed, hits, admitted, clock, proc>>

\* A key's 60-second window ends: its hits start again from 0.
WindowReset(key) ==
  /\ Running
  /\ hits[key] > 0
  /\ hits' = [hits EXCEPT ![key] = 0]
  /\ admitted' = [admitted EXCEPT ![key] = 0]
  /\ last' = [Outcome("window", 0) EXCEPT !.key = key]
  /\ UNCHANGED <<pool, DEST_HOST_ALLOWLIST, killed, clicksTotal, clicks, clock,
                 inflight, proc, redirected, dropped>>

\* ---------------------------------------------------------- kill switch

\* Variant: the switch is flipped, not set.
SetKilled_Toggle(op, path, pass, value) ==
  /\ Running
  /\ IF KillGate(path)
     THEN /\ last' = Outcome(op, 503)
          /\ UNCHANGED killed
     ELSE IF ~adminOK(pass)
     THEN /\ last' = Outcome(op, 403)
          /\ UNCHANGED killed
     ELSE /\ killed' = ~killed
          /\ last' = Outcome(op, 200)
  /\ UNCHANGED <<pool, DEST_HOST_ALLOWLIST, hits, admitted, clicksTotal, clicks,
                 clock, inflight, proc, redirected, dropped>>

\* POST /admin/kill (value = TRUE) and POST /admin/unkill (value = FALSE)
SetKilled(op, path, pass, value) ==
  /\ Running
  /\ IF KillGate(path)
     THEN /\ last' = Outcome(op, 503)
          /\ UNCHANGED killed
     ELSE IF ~adminOK(pass)
     THEN /\ last' = Outcome(op, 403)
          /\ UNCHANGED killed
     ELSE /\ killed' = value
          /\ last' = Outcome(op, 200)
  /\ UNCHANGED <<pool, DEST_HOST_ALLOWLIST, hits, admitted, clicksTotal, clicks,
                 clock, inflight, proc, redirected, dropped>>

Kill(pass) == SetKilled("kill", PathKill, pass, TRUE)

Unkill(pass) == SetKilled("unkill", PathUnkill, pass, FALSE)

\* ------------------------------------------- routes that query nothing

\* A route after the maintenance middleware that answers at once with status.
Plain(op, path, status) ==
  /\ Running
  /\ last' = Outcome(op, IF KillGate(path) THEN 503 ELSE status)
  /\ UNCHANGED <<pool, DEST_HOST_ALLOWLIST, killed, hits, admitted, clicksTotal,
                 clicks, clock, inflight, proc, redirected, dropped>>

\* GET /
Root == Plain("root", PathRoot, 200)

\* GET /metrics: the registry's text; the counter is read, nothing is written.
Metrics == Plain("metrics", PathMetrics, 200)

\* A path no route matches.
NotFound == Plain("other", PathOther, 404)

\* ------------------------------------------------------------- queries

\* LIMIT 5 and left(dest, 60) of /admin/last, LIMIT 1000 of /admin/export
LAST_LIMIT == 5
DEST_LEFT == 60
EXPORT_LIMIT == 1000

Min(a, b) == IF a < b THEN a ELSE b

Reverse(seq) == [i \in 1..Len(seq) |-> seq[Len(seq) + 1 - i]]

Take(seq, n) == SubSeq(seq, 1, Min(n, Len(seq)))

\* SELECT count(*)::int AS c FROM clicks
CountRows == Len(clicks)

\* Variant: the oldest rows instead of the newest (ORDER BY id, ascending).
SelectLast_Oldest ==
  LET rows == Take(clicks, LAST_LIMIT)
  IN  [i \in 1..Len(rows) |->
         [ts |-> rows[i].ts, slug |-> rows[i].slug,
          dest |-> Take(rows[i].dest, DEST_LEFT)]]

\* SELECT ts, slug, left(dest, 60) AS dest FROM clicks ORDER BY id DESC LIMIT 5
SelectLast ==
  LET rows == Take(Reverse(clicks), LAST_LIMIT)
  IN  [i \in 1..Len(rows) |->
         [ts |-> rows[i].ts, slug |-> rows[i].slug,
          dest |-> Take(rows[i].dest, DEST_LEFT)]]

\* SELECT * FROM clicks ORDER BY id DESC LIMIT 1000
SelectExport == Take(Reverse(clicks), EXPORT_LIMIT)

\* SELECT id, ts, ip, ua, slug, dest FROM clicks WHERE ts::date = $1::date
\* ORDER BY id
SelectDay(day) == SelectSeq(clicks, LAMBDA r : r.ts = day)

\* new Parser().parse(rows) of json2csv, given no fields option: it takes the
\* columns from the rows and throws on an empty list.
CsvParse(rows) == [ok |-> rows # <<>>, csv |-> rows]

\* ?day= of /admin/export/day (NoDay: absent)
NoDay == -1
DayParams == (0..MaxDay) \cup {NoDay}

\* (req.query.day || new Date().toISOString().slice(0, 10)).trim()
Day(param) == IF param = NoDay THEN clock ELSE param

\* The handler of an admin read, after adminOK: with a pool that takes the
\* query up it suspends on it; with a pool that is ending the query is
\* rejected at once and the catch block answers; without a pool it goes on
\* with { rows: [] }.
Suspend(task) ==
  /\ Len(inflight) < MaxInFlight
  /\ inflight' = Append(inflight, task)

\* res.json(rows)
SendRows(out, rows) == last' = [out EXCEPT !.status = 200, !.rows = rows]

\* The CSV of rows as an attachment, or the catch block's 500 when the
\* parser throws.
SendCsv(out, rows) ==
  last' = IF CsvParse(rows).ok
          THEN [out EXCEPT !.status = 200, !.rows = CsvParse(rows).csv]
          ELSE [out EXCEPT !.status = 500, !.ok = FALSE]

\* GET /status: registered before the maintenance middleware.
StatusRequest ==
  /\ Running
  /\ IF PoolOpen
     THEN /\ Suspend(Task("status"))
          /\ last' = Outcome("status", 0)
     ELSE IF pool
     THEN /\ last' = [Outcome("status", 200) EXCEPT !.ok = FALSE]
          /\ UNCHANGED inflight
     ELSE /\ last' = [Outcome("status", 200) EXCEPT !.count = 0]
          /\ UNCHANGED inflight
  /\ UNCHANGED <<pool, DEST_HOST_ALLOWLIST, killed, hits, admitted, clicksTotal,
                 clicks, clock, proc, redirected, dropped>>

\* GET /admin/last, GET /admin/export, GET /admin/export/day up to the await
AdminRead(op, path, pass, day) ==
  /\ Running
  /\ IF KillGate(path)
     THEN /\ last' = Outcome(op, 503)
          /\ UNCHANGED inflight
     ELSE IF ~adminOK(pass)
     THEN /\ last' = Outcome(op, 403)
          /\ UNCHANGED inflight
     ELSE IF PoolOpen
     THEN /\ Suspend([Task(op) EXCEPT !.day = day])
          /\ last' = Outcome(op, 0)
     ELSE IF pool
     THEN /\ last' = [Outcome(op, 500) EXCEPT !.ok = FALSE]
          /\ UNCHANGED inflight
     ELSE /\ IF op = "last" THEN SendRows(Outcome(op, 0), <<>>)
                             ELSE SendCsv(Outcome(op, 0), <<>>)
          /\ UNCHANGED inflight
  /\ UNCHANGED <<pool, DEST_HOST_ALLOWLIST, killed, hits, admitted, clicksTotal,
                 clicks, clock, proc, redirected, dropped>>

AdminLast(pass) == AdminRead("last", PathLast, pass, 0)

AdminExport(pass) == AdminRead("export", PathExport, pass, 0)

AdminExportDay(pass, param) ==
  AdminRead("exportDay", PathExportDay, pass, Day(param))

\* Variant: an admin read whose query throws answers 200 with no rows.
QueryDone_Swallow(i, answered) ==
  /\ Running
  /\ i \in 1..Len(inflight)
  /\ LET t == inflight[i]
     IN  /\ t.kind # "go"
         /\ CASE t.kind = "status" ->
                   last' = IF answered
                           THEN [Resumed("status", 200) EXCEPT !.count = CountRows]
                           ELSE [Resumed("status", 200) EXCEPT !.ok = FALSE]
              [] ~answered -> SendRows(Resumed(t.kind, 0), <<>>)
              [] t.kind = "last" -> SendRows(Resumed("last", 0), SelectLast)
              [] t.kind = "export" -> SendCsv(Resumed("export", 0), SelectExport)
              [] OTHER -> SendCsv(Resumed("exportDay", 0), SelectDay(t.day))
  /\ inflight' = Remove(inflight, i)
  /\ UNCHANGED <<pool, DEST_HOST_ALLOWLIST, killed, hits, admitted, clicksTotal,
                 clicks, clock, proc, redirected, dropped>>

\* The query of a suspended /status or admin handler returns (answered =
\* TRUE) or throws (answered = FALSE).
QueryDone(i, answered) ==
  /\ Running
  /\ i \in 1..Len(inflight)
  /\ LET t == inflight[i]
     IN  /\ t.kind # "go"
         /\ CASE t.kind = "status" ->
                   last' = IF answered
                           THEN [Resumed("status", 200) EXCEPT !.count = CountRows]
                           ELSE [Resumed("status", 200) EXCEPT !.ok = FALSE]
              [] ~answered ->
                   last' = [Resumed(t.kind, 500) EXCEPT !.ok = FALSE]
              [] t.kind = "last" -> SendRows(Resumed("last", 0), SelectLast)
              [] t.kind = "export" -> SendCsv(Resumed("export", 0), SelectExport)
              [] OTHER -> SendCsv(Resumed("exportDay", 0), SelectDay(t.day))
  /\ inflight' = Remove(inflight, i)
  /\ UNCHANGED <<pool, DEST_HOST_ALLOWLIST, killed, hits, admitted, clicksTotal,
                 clicks, clock, proc, redirected, dropped>>

\* The store's clock passes midnight.
Tick ==
  /\ Running
  /\ clock < MaxDay
  /\ clock' = clock + 1
  /\ last' = Outcome("tick", 0)
  /\ UNCHANGED <<pool, DEST_HOST_ALLOWLIST, killed, hits, admitted, clicksTotal,
                 clicks, inflight, proc, redirected, dropped>>

\* The store's clock is set back (a correction of its time, a fail-over to
\* a server whose clock is behind): now() is not monotonic in insertion order.
ClockBack ==
  /\ Running
  /\ clock > 0
  /\ clock' = clock - 1
  /\ last' = Outcome("clockBack", 0)
  /\ UNCHANGED <<pool, DEST_HOST_ALLOWLIST, killed, hits, admitted, clicksTotal,
                 clicks, inflight, proc, redirected, dropped>>

\* -------------------------------------------------------------- shutdown

\* SIGTERM or SIGINT: shutdown(signal). Without a pool it goes straight to
\* process.exit(0). The first pool.end() resolves when every client checked
\* out for a query is back in the pool: at once when no query is in flight,
\* otherwise later (PoolEnded). pool.end() on a pool that is already ending
\* is rejected at once ("Called end on pool more than once"), and the
\* finally block exits.
Signal ==
  /\ Running
  /\ proc' = IF pool /\ proc = "up" /\ inflight # <<>> THEN "ending" ELSE "exited"
  /\ last' = Outcome("signal", 0)
  /\ UNCHANGED <<pool, DEST_HOST_ALLOWLIST, killed, hits, admitted, clicksTotal,
                 clicks, clock, inflight, redirected, dropped>>

\* The pending pool.end() resolves, the last query in flight being done, and
\* the finally block exits.
PoolEnded ==
  /\ proc = "ending"
  /\ inflight = <<>>
  /\ proc' = "exited"
  /\ last' = Outcome("exit", 0)
  /\ UNCHANGED <<pool, DEST_HOST_ALLOWLIST, killed, hits, admitted, clicksTotal,
                 clicks, clock, inflight, redirected, dropped>>

\* ------------------------------------------------------- specifications

\* The process after start-up, for each setting of DATABASE_URL and of
\* DEST_HOST_ALLOWLIST among settings; app.locals.killed is not set yet.
InitWith(pools, settings) ==
  /\ pool \in pools
  /\ DEST_HOST_ALLOWLIST \in {ParseAllowlist(e) : e \in settings}
  /\ killed = FALSE
  /\ hits = [a \in Addresses |-> 0]
  /\ admitted = [a \in Addresses |-> 0]
  /\ clicksTotal = [s \in Slugs |-> 0]
  /\ clicks = <<>>
  /\ clock = 0
  /\ inflight = <<>>
  /\ proc = "up"
  /\ redirected = [s \in Slugs |-> 0]
  /\ dropped = [s \in Slugs |-> 0]
  /\ last = Outcome("start", 0)

\* Every route, the redirect requests being those of one client for one slug.
Init == InitWith(BOOLEAN, {<<>>, ExampleCom})

Next ==
  \/ \E query \in {<<>>, EvilX}, peer \in Peers, ua \in UserAgents :
        GoRequest("abc", query, <<>>, peer, ua, MaxClicks)
  \/ \E i \in 1..MaxInFlight, stored \in BOOLEAN : GoInsertDone(i, stored)
  \/ \E pass \in AdminPasses : Kill(pass)
  \/ \E pass \in AdminPasses : Unkill(pass)
  \/ Root
  \/ Metrics
  \/ NotFound
  \/ StatusRequest
  \/ \E pass \in AdminPasses : AdminLast(pass)
  \/ \E pass \in AdminPasses : AdminExport(pass)
  \/ \E pass \in AdminPasses, param \in {NoDay} : AdminExportDay(pass, param)
  \/ \E i \in 1..MaxInFlight, answered \in BOOLEAN : QueryDone(i, answered)

Spec == Init /\ [][Next]_vars

\* The redirect pipeline under concurrent requests of several clients for
\* several slugs, with the kill switch and the limiter's windows.
InitGo == InitWith(BOOLEAN, {ExampleCom})

NextGo ==
  \/ \E slug \in Slugs, query \in {ExampleOk, EvilX}, xff \in XffChains,
        peer \in Peers, ua \in UserAgents :
        GoRequest(slug, query, xff, peer, ua, MaxClicks)
  \/ \E i \in 1..MaxInFlight, stored \in BOOLEAN : GoInsertDone(i, stored)
  \/ \E key \in Addresses : WindowReset(key)
  \/ \E pass \in AdminPasses : Kill(pass)
  \/ \E pass \in AdminPasses : Unkill(pass)

SpecGo == InitGo /\ [][NextGo]_vars

\* The destination validator over the candidate destinations and every
\* setting of the allowlist.
InitValidate == InitWith(BOOLEAN, AllowlistSettings)

NextValidate ==
  \/ \E query \in Candidates, peer \in Peers, ua \in UserAgents :
        GoRequest("abc", query, <<>>, peer, ua, 1)
  \/ \E i \in 1..MaxInFlight, stored \in BOOLEAN : GoInsertDone(i, stored)

SpecValidate == InitValidate /\ [][NextValidate]_vars

\* The limiter over full windows: the redirect requests of two clients for
\* one slug with no store, up to RateRun of them let through.
RateRun == 122

InitRate == InitWith({FALSE}, {<<>>})

NextRate ==
  \/ \E xff \in XffChains, peer \in Peers, ua \in UserAgents :
        GoRequest("abc", <<>>, xff, peer, ua, RateRun)
  \/ \E key \in Addresses : WindowReset(key)

SpecRate == InitRate /\ [][NextRate]_vars

\* /admin/last over a store that fills up: the redirect requests of one
\* client for one slug, up to MaxRows of them, while the store's clock moves
\* forth and back over the days.
MaxRows == 6

InitLast == InitWith({TRUE}, {<<>>})

NextLast ==
  \/ \E peer \in Peers, ua \in UserAgents :
        GoRequest("abc", <<>>, <<>>, peer, ua, MaxRows)
  \/ \E i \in 1..MaxInFlight : GoInsertDone(i, TRUE)
  \/ Tick
  \/ ClockBack
  \/ AdminLast(ADMIN)
  \/ \E i \in 1..MaxInFlight, answered \in BOOLEAN : QueryDone(i, answered)

SpecLast == InitLast /\ [][NextLast]_vars

\* /admin/export/day for every day parameter, over the rows that the
\* redirect requests of one client insert while the store's clock moves.
InitDay == InitWith({TRUE}, {<<>>})

NextDay ==
  \/ \E slug \in Slugs, peer \in Peers, ua \in UserAgents :
        GoRequest(slug, <<>>, <<>>, peer, ua, MaxClicks)
  \/ \E i \in 1..MaxInFlight, stored \in BOOLEAN : GoInsertDone(i, stored)
  \/ Tick
  \/ ClockBack
  \/ \E param \in DayParams : AdminExportDay(ADMIN, param)
  \/ \E i \in 1..MaxInFlight, answered \in BOOLEAN : QueryDone(i, answered)

SpecDay == InitDay /\ [][NextDay]_vars

\* Termination signals among the requests of one client: redirects, /status
\* and /admin/last, with and without a store.
InitShutdown == InitWith(BOOLEAN, {<<>>})

NextShutdown ==
  \/ \E peer \in Peers, ua \in UserAgents :
        GoRequest("abc", <<>>, <<>>, peer, ua, MaxClicks)
  \/ \E i \in 1..MaxInFlight, stored \in BOOLEAN : GoInsertDone(i, stored)
  \/ StatusRequest
  \/ AdminLast(ADMIN)
  \/ \E i \in 1..MaxInFlight, answered \in BOOLEAN : QueryDone(i, answered)
  \/ Signal
  \/ PoolEnded

SpecShutdown == InitShutdown /\ [][NextShutdown]_vars

\* ----------------------------------------------------------------- claims

\* A redirect request came in with this step (and was refused, suspended or
\* answered); a suspended redirect handler resumed with this step.
GoRequestStep == last'.op = "go" /\ last'.step = "request"
GoResumeStep == last'.op = "go" /\ last'.step = "resume"

\* The suspended redirect handler that resumes in a GoResumeStep.
ResumedTask(t) == \E i \in GoTasks : inflight[i] = t /\ inflight' = Remove(inflight, i)

\* C1: a redirect request that comes in while the switch is killed is
\* answered 503 and leaves the table, the counter, the limiter's hits and the
\* suspended handlers as they were; a redirect request that comes in right
\* after a successful unkill is let into the handler (within its quota), and
\* a handler that resumes from its INSERT answers 302.
C1_KilledRedirectRefused ==
  [][ /\ (killed /\ GoRequestStep) =>
           /\ last'.status = 503
           /\ UNCHANGED <<clicks, clicksTotal, hits, admitted, inflight>>
      /\ (last.op = "unkill" /\ last.status = 200 /\ GoRequestStep
            /\ hits[last'.key] < RATE_MAX) =>
           /\ hits'[last'.key] = hits[last'.key] + 1
           /\ IF pool
              THEN last'.status = 0 /\ Len(inflight') = Len(inflight) + 1
              ELSE last'.status = 302
      /\ GoResumeStep => last'.status = 302
    ]_vars

C1_Witness ==
  /\ killed
  /\ last.op = "go" /\ last.status = 503
  /\ clicksTotal["abc"] > 0

\* C2: while the switch is killed, a request to a route outside /admin
\* (/go, /status, /metrics, /, an unknown path) is answered 503.
C2_AllNonAdminRefused ==
  (killed /\ last.step = "request"
     /\ last.op \in {"go", "status", "metrics", "root", "other"})
  => last.status = 503

\* C3: a redirect handler whose INSERT fails (nothing is stored) still
\* answers 302 with Location the resolved destination and still adds 1 to
\* the counter of its slug.
C3_InsertFailureAbsorbed ==
  [][ (GoResumeStep /\ clicks' = clicks) =>
        \E t \in Range(inflight) :
          /\ ResumedTask(t)
          /\ last'.status = 302
          /\ last'.location = t.dest
          /\ t.dest = IF isAllowedDest(t.rawDest) THEN t.rawDest ELSE DEFAULT_DEST
          /\ clicksTotal' = [clicksTotal EXCEPT ![t.slug] = clicksTotal[t.slug] + 1]
    ]_vars

C3_Witness ==
  /\ pool
  /\ last.op = "go" /\ last.step = "resume" /\ last.status = 302
  /\ last.location = DEFAULT_DEST /\ last.rawDest = EvilX
  /\ clicks = <<>>
  /\ clicksTotal[last.slug] = 1

\* C4: a redirect request that is let into the handler is answered 302 in
\* the step that starts its INSERT: no handler is suspended on the INSERT
\* with its response still to send.
C4_ResponseNotGated ==
  (last.op = "go" /\ last.step = "request" /\ last.status \notin {429, 503})
  => last.status = 302

\* C5: the destination a redirect answers with is the handler's rawDest
\* unchanged when that parses as an absolute URL of scheme http or https
\* whose lower-cased host is on the allowlist (or the allowlist is empty),
\* and the fallback in every other case; with allowlist {example.com},
\* https://evil.com/x and "not a url" give the fallback and
\* https://example.com/ok gives itself.
C5_Accepted(raw) ==
  LET u == ParseURL(raw)
  IN  /\ u.ok
      /\ u.protocol \in {<<"h","t","t","p",":">>, <<"h","t","t","p","s",":">>}
      /\ \/ DEST_HOST_ALLOWLIST = {}
         \/ toLowerCase(u.hostname) \in DEST_HOST_ALLOWLIST

C5_ValidatorResult ==
  (last.op = "go" /\ last.status = 302) =>
    /\ last.location \in {last.rawDest, DEFAULT_DEST}
    /\ C5_Accepted(last.rawDest) => last.location = last.rawDest
    /\ ~C5_Accepted(last.rawDest) => last.location = DEFAULT_DEST
    /\ DEST_HOST_ALLOWLIST = {ExampleCom} =>
         /\ last.rawDest = EvilX => last.location = DEFAULT_DEST
         /\ last.rawDest = NotAUrl => last.location = DEFAULT_DEST
         /\ last.rawDest = ExampleOk => last.location = ExampleOk

C5_Witness ==
  /\ DEST_HOST_ALLOWLIST = {ExampleCom, EvilCom}
  /\ last.op = "go" /\ last.status = 302
  /\ last.rawDest = <<"H","T","T","P","S",":","/","/">> \o ExampleCom
                      \o <<"@">> \o EvilCom \o <<"/","o","k">>
  /\ last.location = last.rawDest

\* C6: with the switch live, a redirect request of a key that has had fewer
\* than 120 requests in its window is let through, and one that has had 120
\* or more is answered 429; each request adds 1 to the key's hits, and no
\* key has more than 120 requests let through in one window.
C6_RateLimit ==
  [][ (GoRequestStep /\ ~killed) =>
        LET k == last'.key
        IN  /\ hits'[k] = hits[k] + 1
            /\ hits[k] < RATE_MAX =>
                 /\ last'.status \in {0, 302}
                 /\ admitted'[k] = admitted[k] + 1
            /\ hits[k] >= RATE_MAX =>
                 /\ last'.status = 429
                 /\ admitted'[k] = admitted[k]
                 /\ UNCHANGED <<clicksTotal, clicks, inflight>>
            /\ \A a \in Addresses : admitted'[a] <= RATE_MAX
            /\ \A a \in Addresses \ {k} : hits'[a] = hits[a]
    ]_vars

C6_Witness ==
  /\ last.op = "go" /\ last.status = 429
  /\ hits[last.key] = RATE_MAX + 1
  /\ admitted[last.key] = RATE_MAX
  /\ \E a \in Addresses : a # last.key /\ admitted[a] = 1

\* C7: an admin call whose x-admin-pass is wrong or missing is answered 403
\* and changes nothing: the switch stays, no query is issued; the switch
\* changes only in a kill or unkill call with the right secret.
BadSecretCall ==
  \E pass \in AdminPasses \ {ADMIN} :
    \/ Kill(pass)
    \/ Unkill(pass)
    \/ AdminLast(pass)
    \/ AdminExport(pass)
    \/ \E param \in DayParams : AdminExportDay(pass, param)

C7_BadSecretForbidden ==
  [][ /\ BadSecretCall =>
           /\ last'.status = 403
           /\ UNCHANGED <<killed, inflight, clicks, clicksTotal, hits, admitted>>
      /\ killed' # killed => (Kill(ADMIN) \/ Unkill(ADMIN))
    ]_vars

C7_Witness ==
  /\ killed
  /\ last.op = "unkill" /\ last.status = 403

\* C8: the switch starts live; a kill with the right secret leaves it killed
\* and an unkill leaves it live, whatever it was, both answered 200; no
\* other step changes it.
C8_KillSwitchIdempotent ==
  /\ ~killed
  /\ [][ /\ Kill(ADMIN) => (killed' /\ last'.status = 200)
         /\ Unkill(ADMIN) => (~killed' /\ last'.status = 200)
         /\ ~(Kill(ADMIN) \/ Unkill(ADMIN)) => killed' = killed
       ]_vars

C8_Witness ==
  /\ killed
  /\ last.op = "kill" /\ last.status = 200
  /\ Len(inflight) > 0

\* C9: a request to an admin route is never answered 503 or 429, and in
\* every state an unkill with the right secret is answered 200 and leaves
\* the switch live.
AdminOps == {"kill", "unkill", "last", "export", "exportDay"}

C9_AdminBypassesGate ==
  /\ ENABLED (Unkill(ADMIN) /\ ~killed' /\ last'.status = 200)
  /\ (last.step = "request" /\ last.op \in AdminOps) => last.status \notin {503, 429}

C9_Witness ==
  /\ killed
  /\ last.op = "last" /\ last.step = "request" /\ last.status \in {0, 200}

\* C10: with no store, a redirect request let into the handler is answered
\* 302 with the resolved destination and counted, /status reports 0 clicks,
\* and an admin read or export with the right secret is answered 200 with
\* no rows.
C10_NoStoreUnaffected ==
  ~pool =>
    /\ (last.op = "go" /\ last.status \notin {429, 503}) =>
         /\ last.status = 302
         /\ last.location = IF isAllowedDest(last.rawDest)
                            THEN last.rawDest ELSE DEFAULT_DEST
         /\ clicksTotal[last.slug] > 0
    /\ last.op = "status" => (last.status = 200 /\ last.ok /\ last.count = 0)
    /\ (last.op \in {"last", "export", "exportDay"} /\ last.status # 403) =>
         (last.status = 200 /\ last.rows = <<>>)

\* C11: an answered GET /admin/last holds min(5, n) rows, n the number of
\* rows of the table, and its k-th row is (ts, slug, dest) of the row with the
\* k-th highest id, whatever the rows' timestamps are.
C11_RowWithId(id) == CHOOSE r \in Range(clicks) : r.id = id

C11_LastFiveById ==
  (last.op = "last" /\ last.step = "resume" /\ last.status = 200) =>
    LET n == Len(clicks)
    IN  /\ Len(last.rows) = IF n < 5 THEN n ELSE 5
        /\ \A r \in Range(clicks) : r.id \in 1..n
        /\ \A k \in 1..Len(last.rows) :
             LET r == C11_RowWithId(n + 1 - k)
             IN  /\ last.rows[k].ts = r.ts
                 /\ last.rows[k].slug = r.slug
                 /\ startsWith(r.dest, last.rows[k].dest)
                 /\ Len(r.dest) <= 60 => last.rows[k].dest = r.dest

C11_Witness ==
  /\ last.op = "last" /\ last.step = "resume" /\ last.status = 200
  /\ Len(clicks) = 6
  /\ Len(last.rows) = 5
  /\ clicks[6].ts < clicks[5].ts
  /\ clicks[1].ts # last.rows[5].ts

\* C12: an answered GET /admin/export/day is a 200 whose rows are exactly
\* the rows of the table whose timestamp is on the handler's day, each once,
\* by ascending id; the handler's day is the day parameter, or the current
\* date when the parameter is absent.
C12_ExactlyDay(rows, day) ==
  /\ \A k \in 1..Len(rows) : rows[k] \in Range(clicks) /\ rows[k].ts = day
  /\ \A r \in Range(clicks) : r.ts = day => \E k \in 1..Len(rows) : rows[k] = r
  /\ \A j, k \in 1..Len(rows) : j < k => rows[j].id < rows[k].id

C12_ExportDayExact ==
  [][ /\ \A i \in 1..Len(inflight) :
           (inflight[i].kind = "exportDay" /\ QueryDone(i, TRUE)) =>
             /\ last'.status = 200
             /\ C12_ExactlyDay(last'.rows, inflight[i].day)
      /\ \A param \in DayParams :
           (AdminExportDay(ADMIN, param) /\ last'.status = 0) =>
             inflight'[Len(inflight')].day = IF param = NoDay THEN clock ELSE param
    ]_vars

\* C13: when the query of a suspended /admin/last, /admin/export or
\* /admin/export/day handler throws, the handler answers 500 with an error
\* and no rows; when the INSERT of a suspended redirect handler throws, the
\* handler answers 302 all the same.
C13_StoreErrorSurfaced ==
  [][ \A i \in 1..MaxInFlight :
        /\ (QueryDone(i, FALSE) /\ inflight[i].kind \in {"last", "export", "exportDay"}) =>
             /\ last'.op = inflight[i].kind
             /\ last'.status = 500
             /\ ~last'.ok
             /\ last'.rows = <<>>
        /\ GoInsertDone(i, FALSE) =>
             /\ last'.status = 302
             /\ last'.ok
    ]_vars

C13_Witness ==
  /\ last.op = "last" /\ last.step = "resume"
  /\ last.status = 500
  /\ Len(clicks) > 0
  /\ dropped["abc"] > 0

\* C14: the key under which the limiter counts a redirect request is the
\* client address the handler logs for that request (the ip of its suspended
\* handler, which goes into the row).
C14_KeyIsLoggedIp ==
  (last.op = "go" /\ last.step = "request" /\ last.status = 0) =>
    inflight[Len(inflight)].ip = last.key

\* C15: a redirect request that passes both gates is either suspended on
\* its INSERT with the counter untouched, or answered 302 at once; the
\* handler, at once or when it resumes, adds exactly 1 to the counter of its
\* own slug, leaves the other slugs' counters alone and answers 302 with the
\* resolved destination it handed to the INSERT; no other step changes a
\* counter or the suspended redirect handlers, and no counter ever decreases.
C15_GoTasksOf(seq) == SelectSeq(seq, LAMBDA t : t.kind = "go")

C15_Resolved(raw) == IF isAllowedDest(raw) THEN raw ELSE DEFAULT_DEST

C15_ExactlyOnce ==
  [][ /\ (GoRequestStep /\ last'.status \notin {429, 503}) =>
           IF last'.status = 0
           THEN /\ clicksTotal' = clicksTotal
                /\ Len(inflight') = Len(inflight) + 1
                /\ SubSeq(inflight', 1, Len(inflight)) = inflight
                /\ inflight'[Len(inflight')].kind = "go"
                /\ inflight'[Len(inflight')].slug = last'.slug
                /\ inflight'[Len(inflight')].dest = C15_Resolved(last'.rawDest)
           ELSE /\ last'.status = 302
                /\ last'.location = C15_Resolved(last'.rawDest)
                /\ clicksTotal' = [clicksTotal EXCEPT ![last'.slug] = clicksTotal[last'.slug] + 1]
                /\ inflight' = inflight
      /\ GoResumeStep =>
           \E t \in Range(inflight) :
             /\ ResumedTask(t)
             /\ last'.status = 302
             /\ last'.slug = t.slug
             /\ last'.location = t.dest
             /\ clicksTotal' = [clicksTotal EXCEPT ![t.slug] = clicksTotal[t.slug] + 1]
             /\ clicks' # clicks =>
                  /\ Len(clicks') = Len(clicks) + 1
                  /\ clicks'[Len(clicks')].dest = last'.location
                  /\ clicks'[Len(clicks')].slug = t.slug
      /\ ~((GoRequestStep /\ last'.status \notin {429, 503}) \/ GoResumeStep) =>
           /\ clicksTotal' = clicksTotal
           /\ C15_GoTasksOf(inflight') = C15_GoTasksOf(inflight)
      /\ DOMAIN clicksTotal' = DOMAIN clicksTotal
      /\ \A s \in Slugs : clicksTotal'[s] >= clicksTotal[s]
    ]_vars

C15_Witness ==
  /\ last.op = "go" /\ last.step = "resume" /\ last.status = 302
  /\ clicksTotal[last.slug] = 1
  /\ \E i \in GoTasks :
       /\ inflight[i].slug = last.slug
       /\ inflight[i].dest # last.location
       /\ inflight[i].ip # last.key

\* C16: a step leaves the table as it is or appends one row to it, whose id
\* is above every id of the table; a row is appended only by a redirect
\* handler that resumes from its INSERT; a redirect request starts at most
\* one INSERT, and a handler that resumes, its INSERT stored or failed, is
\* gone: the INSERT is not tried again.
C16_AppendOnly ==
  [][ /\ \/ clicks' = clicks
         \/ /\ GoResumeStep
            /\ Len(clicks') = Len(clicks) + 1
            /\ SubSeq(clicks', 1, Len(clicks)) = clicks
            /\ \A k \in 1..Len(clicks) : clicks[k].id < clicks'[Len(clicks')].id
      /\ GoRequestStep =>
           /\ clicks' = clicks
           /\ \/ C15_GoTasksOf(inflight') = C15_GoTasksOf(inflight)
              \/ /\ Len(inflight') = Len(inflight) + 1
                 /\ SubSeq(inflight', 1, Len(inflight)) = inflight
      /\ GoResumeStep =>
           /\ \E t \in Range(inflight) : ResumedTask(t)
           /\ Len(C15_GoTasksOf(inflight')) = Len(C15_GoTasksOf(inflight)) - 1
      /\ ~(GoRequestStep \/ GoResumeStep) =>
           C15_GoTasksOf(inflight') = C15_GoTasksOf(inflight)
    ]_vars

C16_Witness ==
  /\ last.op = "go" /\ last.step = "resume"
  /\ Len(clicks) = 1
  /\ clicksTotal[last.slug] = 2
  /\ dropped[last.slug] = 1
  /\ inflight = <<>>

\* C17: the process has exited only with no store operation in flight: every
\* query that was in flight when a termination signal came has returned or
\* thrown before process.exit.
C17_ExitAfterDrain == proc = "exited" => inflight = <<>>

\* C18: while pool.end() is pending after a termination signal, a request
\* that comes in is not answered by its handler (no 200, no 302), starts no
\* query and leaves the counter and the table as they were.
C18_RequestOps == {"go", "status", "last", "export", "exportDay", "kill", "unkill",
                   "root", "metrics", "other"}

C18_NoRequestDuringDrain ==
  [][ (proc = "ending" /\ last'.step = "request" /\ last'.op \in C18_RequestOps) =>
        /\ last'.status \notin {200, 302}
        /\ UNCHANGED <<clicksTotal, clicks, inflight>>
    ]_vars

\* C19: a kill leaves the suspended redirect handlers as they are; a
\* redirect handler that resumes while the switch is killed answers 302 with
\* its destination and adds 1 to the counter of its slug, and when its INSERT
\* was stored the table has its row; a redirect request that comes in while
\* the switch is killed is refused: the switch is looked at on entry only.
C19_InFlightSurvivesKill ==
  [][ /\ last'.op = "kill" => inflight' = inflight
      /\ (killed /\ GoRequestStep) => last'.status = 503
      /\ (killed /\ GoResumeStep) =>
           \E t \in Range(inflight) :
             /\ ResumedTask(t)
             /\ last'.status = 302
             /\ last'.location = t.dest
             /\ clicksTotal' = [clicksTotal EXCEPT ![t.slug] = clicksTotal[t.slug] + 1]
      /\ \A i \in 1..MaxInFlight :
           (killed /\ GoInsertDone(i, TRUE)) =>
             /\ Len(clicks') = Len(clicks) + 1
             /\ clicks'[Len(clicks')].slug = inflight[i].slug
             /\ clicks'[Len(clicks')].dest = inflight[i].dest
             /\ clicks'[Len(clicks')].ip = inflight[i].ip
    ]_vars

C19_Witness ==
  /\ killed
  /\ last.op = "go" /\ last.step = "resume" /\ last.status = 302
  /\ Len(clicks) = 1 /\ clicks[1].slug = last.slug
  /\ \A s \in Slugs : clicksTotal[s] = IF s = last.slug THEN 1 ELSE 0
  /\ inflight = <<>>

\* C20: when no redirect handler is suspended, the counter of every slug is
\* the number of redirect requests of the slug answered 302 since start-up,
\* which is the number of the slug's rows stored since start-up plus the
\* number of its INSERTs that failed or were skipped, so the counter is not
\* below the number of rows; the two histories count what they are named
\* after: the 302 answers, and the 302 answers that stored no row.
C20_RowsIn(table, s) == Len(SelectSeq(table, LAMBDA r : r.slug = s))

C20_Answered302 == last'.op = "go" /\ last'.status = 302

C20_DriftOneWay ==
  /\ [](GoTasks = {} =>
          \A s \in Slugs :
            /\ clicksTotal[s] = redirected[s]
            /\ redirected[s] = C20_RowsIn(clicks, s) + dropped[s]
            /\ clicksTotal[s] >= C20_RowsIn(clicks, s))
  /\ [][ /\ C20_Answered302 =>
              redirected' = [redirected EXCEPT ![last'.slug] = redirected[last'.slug] + 1]
         /\ ~C20_Answered302 => redirected' = redirected
         /\ \A s \in Slugs :
              dropped'[s] - dropped[s] =
                (redirected'[s] - redirected[s])
                  - (C20_RowsIn(clicks', s) - C20_RowsIn(clicks, s))
       ]_vars

C20_Witness ==
  /\ GoTasks = {}
  /\ pool
  /\ clicksTotal["abc"] = 2
  /\ C20_RowsIn(clicks, "abc") = 1
  /\ dropped["abc"] = 1
  /\ clicks[1].id = 1

====
